---- MODULE Spec2Model ----
(***************************************************************************)
(* Model of homework.py: a bot that polls the review-status API, turns the *)
(* newest homework record into a message, and sends the message to a chat  *)
(* when the report differs from the last report that was delivered.        *)
(*                                                                         *)
(* Python values are modelled as follows.                                  *)
(*   - a decoded JSON value is a record [type, val]; type is "dict",       *)
(*     "list" or "str";                                                    *)
(*   - the val of a dict is a TLA+ record whose DOMAIN is its set of keys; *)
(*     every homework record carries the key "id", so no dict is empty;    *)
(*   - None is the string "None" (the only uses of a None value are a      *)
(*     membership test in HOMEWORK_VERDICTS and an f-string);              *)
(*   - a message text is a record whose fields are the parts that the      *)
(*     f-string interpolates, so two texts are equal exactly when the      *)
(*     strings are equal; the Russian literals are transliterated;         *)
(*   - a call returns Return(v) or Raise(cls, msg).                        *)
(***************************************************************************)
EXTENDS Integers, Sequences, FiniteSets, TLC

VARIABLES
    pc,              \* position of main()
    tokens,          \* which of the three environment values are set
    timestamp,       \* main: timestamp (the poll cursor)
    current_report,  \* main: current_report
    prev_report,     \* main: prev_report
    response,        \* main: response (value of the last successful fetch)
    exc,             \* exception in flight, NoExc when none
    cyc,             \* history: what the running cycle has done so far
    last,            \* history: what the previous cycle did
    run,             \* history: same = 0 before the first fetch, the index of
                     \* the network reply while every fetch got that reply,
                     \* -1 after; while same > 0, firstOk = the first cycle's
                     \* send_message returned True, kept = every later cycle
                     \* found its report equal to prev_report
    sends,           \* history: number of send_message calls so far
    fetches,         \* history: number of get_api_answer calls so far
    sleeps,          \* history: number of time.sleep calls so far
    clock,           \* history: seconds slept so far
    delivered        \* history: the report of the latest call of send_message
                     \* that the channel delivered, InitReport before the first

vars == <<pc, tokens, timestamp, current_report, prev_report, response, exc,
          cyc, last, run, sends, fetches, sleeps, clock, delivered>>

-----------------------------------------------------------------------------
(* Bounds *)

MaxCycles == 3

-----------------------------------------------------------------------------
(* Constants of the program *)

RETRY_PERIOD == 600

HTTP_OK == 200

HOMEWORK_VERDICTS ==
    [approved  |-> "Rabota proverena: revyueru vsyo ponravilos. Ura!",
     reviewing |-> "Rabota vzyata na proverku revyuerom.",
     rejected  |-> "Rabota proverena: u revyuera est zamechaniya."]

TokenNames == {"PRACTICUM_TOKEN", "TELEGRAM_TOKEN", "TELEGRAM_CHAT_ID"}

-----------------------------------------------------------------------------
(* Python values *)

None == "None"

JDict(d) == [type |-> "dict", val |-> d]
JList(l) == [type |-> "list", val |-> l]
JStr(s) == [type |-> "str", val |-> s]

Return(v) == [kind |-> "return", val |-> v]
Raise(c, m) == [kind |-> "raise", cls |-> c, msg |-> m]

NoExc == [cls |-> "none"]
NoResponse == JStr("unset")

\* dict.get(key)
Get(d, k) == IF k \in DOMAIN d THEN d[k] ELSE None

\* The classes of exceptions.py and the built-in classes the program raises,
\* each with its chain of base classes up to Exception.
ExceptionBases ==
    [InvalidTokens                |-> {"InvalidTokens", "Exception"},
     EndpointFailureResponseCodes |-> {"EndpointFailureResponseCodes", "Exception"},
     ResponseFormatFailure        |-> {"ResponseFormatFailure", "Exception"},
     WrongStatusInResponse        |-> {"WrongStatusInResponse", "Exception"},
     RequestException             |-> {"RequestException", "OSError", "Exception"},
     ConnectionError              |-> {"ConnectionError", "OSError", "Exception"},
     TypeError                    |-> {"TypeError", "Exception"},
     AttributeError               |-> {"AttributeError", "Exception"},
     RequestsJSONDecodeError      |-> {"RequestsJSONDecodeError", "RequestException",
                                       "JSONDecodeError", "ValueError",
                                       "OSError", "Exception"},
     JSONDecodeError              |-> {"JSONDecodeError", "ValueError", "Exception"}]

\* except <base>: does it catch an exception of class cls
IsInstance(cls, base) == base \in ExceptionBases[cls]

-----------------------------------------------------------------------------
(* Inputs: the replies of the API and of the messaging channel *)

Hw(s, n) == JDict([id |-> 1, status |-> s, homework_name |-> n])
HwNoName(s) == JDict([id |-> 1, status |-> s])
HwNoStatus(n) == JDict([id |-> 1, homework_name |-> n])
HwBare == JDict([id |-> 1])

HomeworkLists ==
    << <<>>,
       <<Hw("approved", "X")>>,
       <<Hw("archived", "X")>>,
       <<Hw("approved", "X"), Hw("rejected", "Y")>>,
       <<Hw("reviewing", "Y")>>,
       <<Hw("rejected", "X"), Hw("approved", "X")>>,
       <<Hw("archived", "Y"), Hw("approved", "X")>>,
       <<HwNoName("approved")>>,
       <<HwNoStatus("X")>>,
       <<HwNoName("archived")>>,
       <<HwBare>>,
       <<JStr("a")>>,
       <<JStr("a"), Hw("approved", "X")>> >>

\* the lists that the API also serves with the later current_date
LaterLists == SubSeq(HomeworkLists, 1, 3)

TransportFailure == [t |-> "transport_failure"]

\* a body that is not JSON; val is the class that Response.json() raises:
\* requests.exceptions.JSONDecodeError or, with an older requests,
\* json.JSONDecodeError
Undecodable(cls) == [type |-> "undecodable", val |-> cls]
Http(code, body) == [t |-> "http", status_code |-> code, body |-> body]

ValidBodies ==
    [k \in 1..Len(HomeworkLists) |->
        JDict([homeworks |-> JList(HomeworkLists[k]), current_date |-> 1000])]
    \o [k \in 1..Len(LaterLists) |->
        JDict([homeworks |-> JList(LaterLists[k]), current_date |-> 2000])]

NetReplies ==
    << TransportFailure,
       Http(500, JStr("Internal Server Error")),
       Http(404, JStr("Not Found")),
       Http(HTTP_OK, JList(<<>>)),
       Http(HTTP_OK, JDict([other |-> 1])),
       Http(HTTP_OK, JDict([current_date |-> 1000])),
       Http(HTTP_OK, JDict([homeworks |-> JList(<<Hw("approved", "X")>>)])),
       Http(HTTP_OK, JDict([homeworks |-> JStr("none"), current_date |-> 1000])),
       Http(HTTP_OK, Undecodable("RequestsJSONDecodeError")),
       Http(HTTP_OK, Undecodable("JSONDecodeError")) >>
    \o [k \in 1..Len(ValidBodies) |-> Http(HTTP_OK, ValidBodies[k])]

\* bot.send_message either delivers or raises telegram.error.TelegramError
ChannelOutcomes == {"delivered", "TelegramError"}

-----------------------------------------------------------------------------
(* Message texts *)

EmptyText == [k |-> "empty"]
NoUpdatesText == [k |-> "Obnovleniy net"]
StatusText(name, verdict) ==
    [k |-> "Izmenilsya status proverki raboty", name |-> name, verdict |-> verdict]
CrashText(error) == [k |-> "Sboy v rabote programmy", error |-> error]

-----------------------------------------------------------------------------
(* The functions of the program *)

check_tokens_any(env) == \E name \in TokenNames : env[name]

check_tokens(env) == \A name \in TokenNames : env[name]

send_message_true(channel) == TRUE

\* True when the channel delivered, False when it raised TelegramError.
send_message(channel) == channel = "delivered"

get_api_answer(ts, net) ==
    IF net.t = "transport_failure"
    THEN Raise("ConnectionError", [e |-> "Oshibka soedineniya", from_date |-> ts])
    ELSE IF net.status_code # HTTP_OK
         THEN IF IsInstance("EndpointFailureResponseCodes", "RequestException")
              THEN Raise("ConnectionError",
                         [e |-> "Oshibka soedineniya", from_date |-> ts])
              ELSE Raise("EndpointFailureResponseCodes",
                         [e |-> "Please check why API response failed",
                          status_code |-> net.status_code, text |-> net.body.val])
         ELSE IF net.body.type = "undecodable"
              THEN IF IsInstance(net.body.val, "RequestException")
                   THEN Raise("ConnectionError",
                              [e |-> "Oshibka soedineniya", from_date |-> ts])
                   ELSE Raise(net.body.val, [e |-> "Expecting value"])
              ELSE Return(net.body)

check_response(resp) ==
    IF resp.type # "dict"
    THEN Raise("TypeError", [e |-> "Response data format is not dictionary"])
    ELSE IF "homeworks" \notin DOMAIN resp.val
    THEN Raise("ResponseFormatFailure",
               [e |-> "Please check homeworks existence in response"])
    ELSE IF "current_date" \notin DOMAIN resp.val
    THEN Raise("ResponseFormatFailure",
               [e |-> "Please check current_date existence in response"])
    ELSE IF resp.val.homeworks.type # "list"
    THEN Raise("TypeError", [e |-> "Response data format is not list"])
    ELSE Return(resp.val.homeworks)

parse_status_name_first(homework) ==
    IF homework.type # "dict"
    THEN Raise("AttributeError",
               [e |-> "object has no attribute 'get'", type |-> homework.type])
    ELSE IF "homework_name" \notin DOMAIN homework.val
    THEN Raise("ResponseFormatFailure",
               [e |-> "Please validate homework_name exist in response"])
    ELSE
    LET status == Get(homework.val, "status") IN
    IF status \notin DOMAIN HOMEWORK_VERDICTS
    THEN Raise("WrongStatusInResponse",
               [e |-> "Please validate status", status |-> status])
    ELSE Return(StatusText(homework.val.homework_name, HOMEWORK_VERDICTS[status]))

parse_status(homework) ==
    IF homework.type # "dict"
    THEN Raise("AttributeError",
               [e |-> "object has no attribute 'get'", type |-> homework.type])
    ELSE
    LET status == Get(homework.val, "status") IN
    IF status \notin DOMAIN HOMEWORK_VERDICTS
    THEN Raise("WrongStatusInResponse",
               [e |-> "Please validate status", status |-> status])
    ELSE IF "homework_name" \notin DOMAIN homework.val
    THEN Raise("ResponseFormatFailure",
               [e |-> "Please validate homework_name exist in response"])
    ELSE Return(StatusText(homework.val.homework_name, HOMEWORK_VERDICTS[status]))

-----------------------------------------------------------------------------
(* The pieces of main() *)

AlwaysDiffers(cur, prev) == TRUE

Oldest(homeworks) == homeworks[Len(homeworks)]

\* homework_name[0]
Newest(homeworks) == homeworks[1]

\* current_report != prev_report
Differs(cur, prev) == cur # prev

StoredAlways(ok, cur, prev) == cur

StoredNever(ok, cur, prev) == prev

\* prev_report after send_message returned ok
Stored(ok, cur, prev) == IF ok THEN cur ELSE prev

CursorAlways(ok, resp, ts) == Get(resp.val, "current_date")

\* timestamp after send_message returned ok on the status path
Cursor(ok, resp, ts) == IF ok THEN Get(resp.val, "current_date") ELSE ts

HandlerTypeQuiet(cls) ==
    IF IsInstance(cls, "ResponseFormatFailure") \/ IsInstance(cls, "TypeError")
    THEN "quiet"
    ELSE IF IsInstance(cls, "Exception") THEN "report"
    ELSE "none"

HandlerAllReport(cls) ==
    IF IsInstance(cls, "Exception") THEN "report" ELSE "none"

\* the except clause that takes an exception of class cls
Handler(cls) ==
    IF IsInstance(cls, "ResponseFormatFailure") THEN "quiet"
    ELSE IF IsInstance(cls, "Exception") THEN "report"
    ELSE "none"

FinallyBreaks(branch) == IF branch = "else" THEN "done" ELSE "sleep"

FinallySkipsQuiet(branch) == IF branch = "quiet" THEN "fetch" ELSE "sleep"

\* where control goes when the try statement is left through the given branch
Finally(branch) == "sleep"

-----------------------------------------------------------------------------
(* main() *)

InitReport == [homework_name |-> JStr(""), message_output |-> EmptyText]

NewCycle == [trace |-> <<>>, sent |-> <<>>, raised |-> NoExc, net |-> 0]

NoLast == [trace |-> <<>>, sent |-> <<>>, raised |-> NoExc, net |-> 0,
           report |-> InitReport]

Diverged == [same |-> -1, firstOk |-> FALSE, kept |-> FALSE]

Init ==
    /\ pc = "start"
    /\ tokens \in [TokenNames -> BOOLEAN]
    /\ timestamp = 0
    /\ current_report = InitReport
    /\ prev_report = InitReport
    /\ response = NoResponse
    /\ exc = NoExc
    /\ cyc = NewCycle
    /\ last = NoLast
    /\ run = [same |-> 0, firstOk |-> FALSE, kept |-> TRUE]
    /\ sends = 0
    /\ fetches = 0
    /\ sleeps = 0
    /\ clock = 0
    /\ delivered = InitReport

Step(name) == [cyc EXCEPT !.trace = Append(@, name)]

Sent(name, msg, ch, ok) ==
    [cyc EXCEPT !.trace = Append(@, name),
                !.sent = Append(@, [msg |-> msg, channel |-> ch, ok |-> ok])]

Raised(name, r) ==
    [cyc EXCEPT !.trace = Append(@, name),
                !.raised = [cls |-> r.cls, msg |-> r.msg]]

\* the history of a run of identical fetches, after a comparison of the
\* reports that found them different (differ) and a send that returned ok
Compared(differ, ok) ==
    IF run.same <= 0 THEN run
    ELSE IF sleeps = 0 THEN [run EXCEPT !.firstOk = ok]
    ELSE IF differ THEN [run EXCEPT !.kept = FALSE]
    ELSE run

\* lines 143-146
CheckTokens ==
    /\ pc = "start"
    /\ IF check_tokens(tokens)
       THEN pc' = "fetch" /\ exc' = exc
       ELSE /\ pc' = "aborted"
            /\ exc' = [cls |-> "InvalidTokens",
                       msg |-> [e |-> "Please check variables are configured in .env"]]
    /\ UNCHANGED <<tokens, delivered, timestamp, current_report, prev_report, response,
                   cyc, last, run, sends, fetches, sleeps, clock>>

\* line 159
Fetch ==
    /\ pc = "fetch"
    /\ fetches < MaxCycles
    /\ \E i \in 1..Len(NetReplies) :
         LET r == get_api_answer(timestamp, NetReplies[i]) IN
         /\ IF r.kind = "return"
            THEN /\ response' = r.val
                 /\ exc' = exc
                 /\ pc' = "validate"
                 /\ cyc' = [Step("fetch_ok") EXCEPT !.net = i]
            ELSE /\ response' = response
                 /\ exc' = [cls |-> r.cls, msg |-> r.msg]
                 /\ pc' = "except"
                 /\ cyc' = [Raised("fetch_raise", r) EXCEPT !.net = i]
         /\ run' = IF run.same = 0 THEN [run EXCEPT !.same = i]
                   ELSE IF run.same = i THEN run
                   ELSE Diverged
    /\ fetches' = fetches + 1
    /\ UNCHANGED <<tokens, delivered, timestamp, current_report, prev_report, last,
                   sends, sleeps, clock>>

\* lines 160-161
Validate ==
    /\ pc = "validate"
    /\ LET r == check_response(response) IN
       IF r.kind = "return"
       THEN /\ current_report' = [current_report EXCEPT !.homework_name = r.val]
            /\ exc' = exc
            /\ pc' = "interpret"
            /\ cyc' = Step("validate_ok")
       ELSE /\ current_report' = current_report
            /\ exc' = [cls |-> r.cls, msg |-> r.msg]
            /\ pc' = "except"
            /\ cyc' = Raised("validate_raise", r)
    /\ UNCHANGED <<tokens, delivered, timestamp, prev_report, response, last, run,
                   sends, fetches, sleeps, clock>>

\* lines 162-167
Interpret ==
    /\ pc = "interpret"
    /\ LET homework_name == current_report.homework_name.val IN
       IF Len(homework_name) > 0
       THEN LET r == parse_status(Newest(homework_name)) IN
            IF r.kind = "return"
            THEN /\ current_report' =
                        [current_report EXCEPT !.message_output = r.val]
                 /\ exc' = exc
                 /\ pc' = "compare"
                 /\ cyc' = Step("interpret_ok")
            ELSE /\ current_report' = current_report
                 /\ exc' = [cls |-> r.cls, msg |-> r.msg]
                 /\ pc' = "except"
                 /\ cyc' = Raised("interpret_raise", r)
       ELSE /\ current_report' =
                   [current_report EXCEPT !.message_output = NoUpdatesText]
            /\ exc' = exc
            /\ pc' = "compare"
            /\ cyc' = Step("interpret_empty")
    /\ UNCHANGED <<tokens, delivered, timestamp, prev_report, response, last, run,
                   sends, fetches, sleeps, clock>>

\* lines 168-173
Dispatch ==
    /\ pc = "compare"
    /\ IF Differs(current_report, prev_report)
       THEN \E ch \in ChannelOutcomes :
              LET ok == send_message(ch) IN
              /\ sends' = sends + 1
              /\ prev_report' = Stored(ok, current_report, prev_report)
              /\ timestamp' = Cursor(ok, response, timestamp)
              /\ cyc' = Sent(IF ok THEN "send_ok" ELSE "send_fail",
                             current_report.message_output, ch, ok)
              /\ run' = Compared(current_report # prev_report, ok)
              /\ delivered' = IF ch = "delivered" THEN current_report ELSE delivered
       ELSE /\ sends' = sends
            /\ delivered' = delivered
            /\ prev_report' = prev_report
            /\ timestamp' = timestamp
            /\ cyc' = Step("no_send")
            /\ run' = Compared(current_report # prev_report, FALSE)
    /\ pc' = Finally("else")
    /\ UNCHANGED <<tokens, current_report, response, exc, last,
                   fetches, sleeps, clock>>

\* lines 174-175
ExceptFormatFailure ==
    /\ pc = "except"
    /\ Handler(exc.cls) = "quiet"
    /\ exc' = NoExc
    /\ cyc' = Step("quiet")
    /\ pc' = Finally("quiet")
    /\ UNCHANGED <<tokens, delivered, timestamp, current_report, prev_report, response,
                   last, run, sends, fetches, sleeps, clock>>

\* lines 176-182
ExceptException ==
    /\ pc = "except"
    /\ Handler(exc.cls) = "report"
    /\ LET message == CrashText(exc.msg)
           report == [current_report EXCEPT !.message_output = message] IN
       /\ current_report' = report
       /\ IF Differs(report, prev_report)
          THEN \E ch \in ChannelOutcomes :
                 LET ok == send_message(ch) IN
                 /\ sends' = sends + 1
                 /\ prev_report' = Stored(ok, report, prev_report)
                 /\ cyc' = Sent(IF ok THEN "error_send_ok" ELSE "error_send_fail",
                                message, ch, ok)
                 /\ run' = Compared(report # prev_report, ok)
                 /\ delivered' = IF ch = "delivered" THEN report ELSE delivered
          ELSE /\ sends' = sends
               /\ delivered' = delivered
               /\ prev_report' = prev_report
               /\ cyc' = Step("error_no_send")
               /\ run' = Compared(report # prev_report, FALSE)
    /\ exc' = NoExc
    /\ pc' = Finally("report")
    /\ UNCHANGED <<tokens, timestamp, response, last, fetches, sleeps, clock>>

\* lines 183-184, and the jump back to line 157
Sleep ==
    /\ pc = "sleep"
    /\ sleeps' = sleeps + 1
    /\ clock' = clock + RETRY_PERIOD
    /\ last' = [trace |-> cyc.trace, sent |-> cyc.sent, raised |-> cyc.raised,
                net |-> cyc.net, report |-> current_report]
    /\ cyc' = NewCycle
    /\ pc' = "fetch"
    /\ UNCHANGED <<tokens, delivered, timestamp, current_report, prev_report, response,
                   exc, run, sends, fetches>>

Next ==
    \/ CheckTokens
    \/ Fetch
    \/ Validate
    \/ Interpret
    \/ Dispatch
    \/ ExceptFormatFailure
    \/ ExceptException
    \/ Sleep

Spec == Init /\ [][Next]_vars

\* main() runs on one thread that never waits for anything but its own calls:
\* whenever a step of main() is possible, a step is taken.
FairSpec == Spec /\ WF_vars(Next)

-----------------------------------------------------------------------------
(* Properties *)

\* the reply the running cycle fetched
CycleReply == NetReplies[cyc.net]

\* A reply that follows the documented interface: status OK, a dict with the
\* keys homeworks and current_date, homeworks a list of dicts that each have
\* the keys status and homework_name.
WellFormed(net) ==
    /\ net.t = "http"
    /\ net.status_code = HTTP_OK
    /\ net.body.type = "dict"
    /\ {"homeworks", "current_date"} \subseteq DOMAIN net.body.val
    /\ net.body.val.homeworks.type = "list"
    /\ \A k \in DOMAIN net.body.val.homeworks.val :
          LET h == net.body.val.homeworks.val[k] IN
          /\ h.type = "dict"
          /\ {"status", "homework_name"} \subseteq DOMAIN h.val

\* C1: while every fetch has returned the same well-formed reply, and once the
\* first cycle has compared its report, send_message has been called exactly
\* once as long as every later cycle found its report equal to prev_report;
\* and the reports do stay equal when the first call returned True.
C1_DispatchedOnce ==
    (run.same > 0 /\ WellFormed(NetReplies[run.same])
       /\ (sleeps >= 1 \/ pc = "sleep"))
    => /\ run.kept => sends = 1
       /\ run.firstOk => run.kept

C1_Witness ==
    /\ run.same > 0
    /\ WellFormed(NetReplies[run.same])
    /\ sleeps >= 2
    /\ pc = "sleep"
    /\ run.firstOk
    /\ sends = 1

\* the last step a cycle's trace records
LastOf(trace) == IF Len(trace) = 0 THEN "" ELSE trace[Len(trace)]

\* the trace of a cycle whose fetch, validation, interpretation (or empty
\* list) and send_message all succeeded
FullSuccess(trace) ==
    \/ trace = <<"fetch_ok", "validate_ok", "interpret_ok", "send_ok">>
    \/ trace = <<"fetch_ok", "validate_ok", "interpret_empty", "send_ok">>

\* C2: timestamp changes only in the step that completes a cycle in which
\* fetch, validation, interpretation and send_message all succeeded, and that
\* step sets it to the current_date of the reply fetched in the same cycle; no
\* step of any other cycle changes it.
C2_CursorOnlyOnFullSuccess ==
    [][/\ timestamp' # timestamp => FullSuccess(cyc'.trace)
       /\ (FullSuccess(cyc'.trace) /\ cyc'.trace # cyc.trace)
             => timestamp' = CycleReply.body.val.current_date]_vars

C2_Witness ==
    /\ pc = "sleep"
    /\ FullSuccess(cyc.trace)
    /\ sleeps >= 1
    /\ LastOf(last.trace) = "error_send_ok"
    /\ CycleReply.body.val.current_date = 2000
    /\ timestamp = 2000

\* C3: prev_report changes only in a step in which send_message was called and
\* returned True, and it then equals the report that was sent; this holds on
\* the status path and on the error path.
C3_StoredOnlyAfterTrue ==
    [][prev_report' # prev_report =>
         /\ sends' = sends + 1
         /\ Len(cyc'.sent) = Len(cyc.sent) + 1
         /\ cyc'.sent[Len(cyc'.sent)].ok
         /\ cyc'.sent[Len(cyc'.sent)].msg = prev_report'.message_output
         /\ prev_report' = current_report']_vars

C3_Witness ==
    /\ pc = "sleep"
    /\ LastOf(last.trace) = "send_ok"
    /\ LastOf(cyc.trace) = "error_send_ok"
    /\ prev_report = current_report
    /\ prev_report # last.report

\* a reply with status OK whose body is a dict without the key homeworks or
\* without the key current_date
LacksKey(net) ==
    /\ net.t = "http"
    /\ net.status_code = HTTP_OK
    /\ net.body.type = "dict"
    /\ ~({"homeworks", "current_date"} \subseteq DOMAIN net.body.val)

\* C4: in a cycle whose reply is a dict without homeworks or without
\* current_date, check_response raises ResponseFormatFailure, the quiet handler
\* takes it, and no step of the cycle calls send_message or changes timestamp
\* or prev_report.
C4_QuietFormatFailure ==
    [][(cyc.net > 0 /\ LacksKey(CycleReply)) =>
         /\ pc = "validate" =>
               (exc'.cls = "ResponseFormatFailure" /\ pc' = "except")
         /\ pc = "except" =>
               (cyc'.trace = <<"fetch_ok", "validate_raise", "quiet">>
                  /\ pc' = "sleep")
         /\ pc \in {"validate", "except", "sleep"}
         /\ sends' = sends
         /\ timestamp' = timestamp
         /\ prev_report' = prev_report]_vars

C4_Witness ==
    /\ pc = "sleep"
    /\ cyc.net > 0
    /\ LacksKey(CycleReply)
    /\ "homeworks" \in DOMAIN CycleReply.body.val
    /\ cyc.trace = <<"fetch_ok", "validate_raise", "quiet">>
    /\ cyc.sent = <<>>
    /\ prev_report # InitReport

\* a cycle that ended in the handler of line 176
ErrorCycle(trace) ==
    LastOf(trace) \in {"error_send_ok", "error_send_fail", "error_no_send"}

\* a cycle whose get_api_answer raised
FetchFailed(trace) == Len(trace) >= 1 /\ trace[1] = "fetch_raise"

\* the reply with index i is a transport failure or has a status code other
\* than OK
TransportOrStatus(i) ==
    /\ i > 0
    /\ \/ NetReplies[i].t = "transport_failure"
       \/ NetReplies[i].status_code # HTTP_OK

\* a reply that passes check_response and has a first homework record
HasFirst(net) ==
    /\ net.t = "http"
    /\ net.status_code = HTTP_OK
    /\ check_response(net.body).kind = "return"
    /\ Len(net.body.val.homeworks.val) > 0

FirstOf(net) == net.body.val.homeworks.val[1]

\* the first record has a status of the verdict table and no homework_name
NamelessVerdict(net) ==
    /\ HasFirst(net)
    /\ FirstOf(net).type = "dict"
    /\ Get(FirstOf(net).val, "status") \in DOMAIN HOMEWORK_VERDICTS
    /\ "homework_name" \notin DOMAIN FirstOf(net).val

\* C5: a cycle whose first record has a status of the verdict table and no
\* homework_name raises the format error in parse_status and ends in error
\* reporting: the error message is sent when the report differs from
\* prev_report.
C5_InterpretFormatErrorReported ==
    (pc = "sleep" /\ cyc.net > 0 /\ NamelessVerdict(CycleReply)) =>
        /\ cyc.raised.cls = "ResponseFormatFailure"
        /\ ErrorCycle(cyc.trace)
        /\ current_report.message_output = CrashText(cyc.raised.msg)

\* C6: when two consecutive cycles end in error reporting with the same error
\* message and the first cycle's message was sent with result True, the second
\* cycle does not call send_message.
C6_IdenticalFailureNotResent ==
    (/\ pc = "sleep"
     /\ ErrorCycle(cyc.trace)
     /\ LastOf(last.trace) = "error_send_ok"
     /\ cyc.raised.msg = last.raised.msg)
    => cyc.sent = <<>>

\* C7 as stated: a cycle whose fetch fails builds the error report from the
\* cause and calls send_message at most once, and an identical fetch failure
\* in the next cycle calls send_message not at all.
C7_NoSecondDispatch ==
    (pc = "sleep" /\ FetchFailed(cyc.trace) /\ TransportOrStatus(cyc.net)) =>
        /\ current_report.message_output = CrashText(cyc.raised.msg)
        /\ Len(cyc.sent) <= 1
        /\ (FetchFailed(last.trace) /\ TransportOrStatus(last.net) /\ cyc.raised.msg = last.raised.msg)
              => cyc.sent = <<>>

\* C7 amended: a cycle whose fetch fails (transport failure or a status code
\* other than OK) builds the error report from the cause, calls send_message
\* once exactly when the report differs from prev_report, and leaves timestamp
\* unchanged; an identical fetch failure in the next cycle calls send_message
\* not at all unless the first cycle's send_message returned False.
C7_FetchFailureReportedOnce ==
    /\ []((pc = "sleep" /\ FetchFailed(cyc.trace) /\ TransportOrStatus(cyc.net)) =>
            /\ cyc.raised.cls \in {"ConnectionError", "EndpointFailureResponseCodes"}
            /\ ErrorCycle(cyc.trace)
            /\ current_report.message_output = CrashText(cyc.raised.msg)
            /\ Len(cyc.sent) <= 1
            /\ (/\ FetchFailed(last.trace) /\ TransportOrStatus(last.net)
                /\ cyc.raised.msg = last.raised.msg
                /\ LastOf(last.trace) # "error_send_fail")
                  => cyc.sent = <<>>)
    /\ [][(pc = "except" /\ cyc.trace = <<"fetch_raise">>
             /\ TransportOrStatus(cyc.net)) =>
            /\ timestamp' = timestamp
            /\ sends' \in {sends, sends + 1}
            /\ (sends' = sends + 1) <=>
                  ([current_report EXCEPT !.message_output = CrashText(exc.msg)]
                     # prev_report)]_vars

C7_Witness ==
    /\ pc = "sleep"
    /\ FetchFailed(cyc.trace) /\ TransportOrStatus(cyc.net)
    /\ cyc.raised.cls = "EndpointFailureResponseCodes"
    /\ FetchFailed(last.trace) /\ TransportOrStatus(last.net)
    /\ cyc.raised.msg = last.raised.msg
    /\ LastOf(last.trace) = "error_send_ok"
    /\ cyc.sent = <<>>
    /\ timestamp = 1000

\* the first record is a dict whose status is not in the verdict table
UnknownStatusFirst(net) ==
    /\ HasFirst(net)
    /\ FirstOf(net).type = "dict"
    /\ Get(FirstOf(net).val, "status") \notin DOMAIN HOMEWORK_VERDICTS

\* C8: for a first record whose status is not in the verdict table,
\* parse_status raises WrongStatusInResponse carrying the status and sets no
\* message; the cycle ends in error reporting, which sends the error report
\* exactly when it differs from prev_report, and timestamp is unchanged.
C8_UnknownStatusReported ==
    [][(cyc.net > 0 /\ UnknownStatusFirst(CycleReply)) =>
         /\ pc = "interpret" =>
               /\ exc' = [cls |-> "WrongStatusInResponse",
                           msg |-> [e |-> "Please validate status",
                                    status |-> Get(FirstOf(CycleReply).val, "status")]]
               /\ current_report'.message_output = current_report.message_output
               /\ pc' = "except"
         /\ pc = "except" =>
               /\ ErrorCycle(cyc'.trace)
               /\ current_report'.message_output = CrashText(exc.msg)
               /\ (sends' = sends + 1) <=> (current_report' # prev_report)
               /\ (sends' = sends) <=> (current_report' = prev_report)
         /\ timestamp' = timestamp]_vars

C8_Witness ==
    /\ pc = "sleep"
    /\ cyc.net > 0
    /\ UnknownStatusFirst(CycleReply)
    /\ cyc.raised.cls = "WrongStatusInResponse"
    /\ cyc.raised.msg.status = "archived"
    /\ LastOf(cyc.trace) = "error_send_ok"
    /\ CycleReply.body.val.current_date = 2000
    /\ timestamp = 1000

\* C9: when the channel raises TelegramError, send_message returns False and
\* no exception is in flight afterwards, the cycle goes on to the sleep, and
\* prev_report and timestamp are unchanged; when the next cycle computes the
\* same report, it calls send_message again with the same message.
C9_ChannelFailureRetried ==
    /\ [][(sends' = sends + 1
             /\ cyc'.sent[Len(cyc'.sent)].channel = "TelegramError") =>
            /\ ~cyc'.sent[Len(cyc'.sent)].ok
            /\ exc' = NoExc
            /\ pc' = "sleep"
            /\ prev_report' = prev_report
            /\ timestamp' = timestamp]_vars
    /\ []((/\ pc = "sleep"
           /\ last.sent # <<>>
           /\ last.sent[1].channel = "TelegramError"
           /\ LastOf(cyc.trace) # "quiet"
           /\ current_report = last.report)
          => /\ Len(cyc.sent) = 1
             /\ cyc.sent[1].msg = last.sent[1].msg)

C9_Witness ==
    /\ pc = "sleep"
    /\ last.sent # <<>>
    /\ last.sent[1].channel = "TelegramError"
    /\ ~last.sent[1].ok
    /\ Len(cyc.sent) = 1
    /\ cyc.sent[1].msg = last.sent[1].msg
    /\ cyc.sent[1].ok
    /\ prev_report = current_report

\* C10: the number of fetches never exceeds the number of sleeps by more than
\* one, a fetch starts only when every earlier cycle has slept once, every
\* way out of the try statement leads to the sleep, and every sleep lasts
\* RETRY_PERIOD.
C10_OneSleepPerCycle ==
    /\ [](/\ pc = "fetch" => fetches = sleeps
          /\ pc \in {"validate", "interpret", "compare", "except", "sleep"}
                => fetches = sleeps + 1
          /\ clock = sleeps * RETRY_PERIOD)
    /\ [][/\ pc \in {"compare", "except"} => pc' = "sleep"
          /\ fetches' # fetches => (fetches' = fetches + 1 /\ fetches = sleeps)
          /\ sleeps' # sleeps => (sleeps' = sleeps + 1 /\ pc = "sleep")]_vars

C10_Witness ==
    /\ pc = "fetch"
    /\ sleeps = 2
    /\ fetches = 2
    /\ clock = 2 * RETRY_PERIOD
    /\ LastOf(last.trace) = "quiet"

\* C11: when one of the three environment values is absent, main() raises
\* InvalidTokens at line 145 and stops: get_api_answer and send_message are
\* never called and the loop is never entered.
C11_AbortsWithoutTokens ==
    (\E name \in TokenNames : ~tokens[name]) =>
        /\ pc \in {"start", "aborted"}
        /\ pc = "aborted" => exc.cls = "InvalidTokens"
        /\ fetches = 0
        /\ sends = 0
        /\ sleeps = 0
        /\ cyc = NewCycle

C11_Witness ==
    /\ pc = "aborted"
    /\ tokens["PRACTICUM_TOKEN"]
    /\ tokens["TELEGRAM_TOKEN"]
    /\ ~tokens["TELEGRAM_CHAT_ID"]
    /\ exc.cls = "InvalidTokens"
    /\ fetches = 0
    /\ sends = 0

\* C12: once check_tokens has passed, every fetch is followed by another
\* fetch, whatever the cycle did, up to the bound on the number of cycles; and
\* the last cycle of the bound also sleeps and returns to the head of the loop.
C12_AnotherFetchFollows ==
    /\ \A n \in 0..(MaxCycles - 1) :
          (check_tokens(tokens) /\ fetches = n) ~> (fetches = n + 1)
    /\ (fetches = MaxCycles) ~> (pc = "fetch" /\ sleeps = MaxCycles)

C12_Witness ==
    /\ pc \in {"validate", "except"}
    /\ cyc.trace \in {<<"fetch_ok">>, <<"fetch_raise">>}
    /\ fetches = 2
    /\ LastOf(last.trace) = "send_ok"
    /\ last.sent[1].msg = StatusText("X", HOMEWORK_VERDICTS["approved"])

\* the homeworks list of a reply that passes check_response
ListOf(net) == net.body.val.homeworks.val

\* a reply that passes check_response
Validated(net) ==
    /\ net.t = "http"
    /\ net.status_code = HTTP_OK
    /\ net.body.type # "undecodable"
    /\ check_response(net.body).kind = "return"

\* a record that has a status of the verdict table and a homework_name
Interpretable(h) ==
    /\ h.type = "dict"
    /\ {"status", "homework_name"} \subseteq DOMAIN h.val
    /\ h.val.status \in DOMAIN HOMEWORK_VERDICTS

\* the reply of scenario A: one approved record named X, current_date 1000
ScenarioA(net) ==
    /\ Validated(net)
    /\ ListOf(net) = <<Hw("approved", "X")>>
    /\ net.body.val.current_date = 1000

\* C13: in a cycle whose reply passes check_response, the interpretation step
\* sets the message from the first element of the list alone (the status
\* message of that record, or an exception when that record cannot be
\* interpreted) and sets the no-updates text when the list is empty; the
\* no-updates text is sent exactly when the report differs from prev_report.
\* In the first cycle, the reply of scenario A is sent as the approved message
\* for X, and when the channel delivers it timestamp becomes 1000.
C13_FirstElementOrSentinel ==
    /\ [][(pc = "interpret" /\ cyc.net > 0 /\ Validated(CycleReply)) =>
            LET list == ListOf(CycleReply) IN
            /\ Len(list) = 0 =>
                  /\ current_report'.message_output = NoUpdatesText
                  /\ pc' = "compare"
            /\ (Len(list) > 0 /\ Interpretable(list[1])) =>
                  /\ current_report'.message_output =
                        [k |-> "Izmenilsya status proverki raboty",
                         name |-> list[1].val.homework_name,
                         verdict |-> HOMEWORK_VERDICTS[list[1].val.status]]
                  /\ pc' = "compare"
            /\ (Len(list) > 0 /\ ~Interpretable(list[1])) =>
                  /\ current_report'.message_output = current_report.message_output
                  /\ pc' = "except"]_vars
    /\ [][(pc = "compare" /\ current_report.message_output = NoUpdatesText) =>
            /\ (sends' = sends + 1) <=> (current_report # prev_report)
            /\ (sends' = sends) <=> (current_report = prev_report)]_vars
    /\ []((pc = "sleep" /\ sleeps = 0 /\ cyc.net > 0 /\ ScenarioA(CycleReply)) =>
            /\ Len(cyc.sent) = 1
            /\ cyc.sent[1].msg =
                  [k |-> "Izmenilsya status proverki raboty", name |-> "X",
                   verdict |-> HOMEWORK_VERDICTS["approved"]]
            /\ cyc.sent[1].ok => timestamp = 1000
            /\ ~cyc.sent[1].ok => timestamp = 0)

C13_Witness ==
    /\ pc = "sleep"
    /\ sleeps = 0
    /\ cyc.net > 0
    /\ ScenarioA(CycleReply)
    /\ cyc.trace = <<"fetch_ok", "validate_ok", "interpret_ok", "send_ok">>
    /\ cyc.sent[1].msg.name = "X"
    /\ timestamp = 1000

\* C14: every call of send_message, on the status path and on the error
\* path, is made with a computed report that differs from prev_report; and a
\* report that the channel delivers differs from the report it delivered the
\* time before.
C14_SendOnlyWhenDifferent ==
    [][sends' = sends + 1 =>
         /\ pc \in {"compare", "except"}
         /\ current_report' # prev_report
         /\ cyc'.sent[Len(cyc'.sent)].msg = current_report'.message_output
         /\ cyc'.sent[Len(cyc'.sent)].channel = "delivered" =>
               /\ current_report' # delivered
               /\ delivered' = current_report']_vars

C14_Witness ==
    /\ pc = "sleep"
    /\ LastOf(last.trace) = "error_send_ok"
    /\ LastOf(cyc.trace) = "send_ok"
    /\ delivered = current_report
    /\ delivered # last.report
    /\ delivered.message_output = NoUpdatesText

\* a decoded reply that is not a dict, or is a dict with both keys whose
\* homeworks value is not a list
WrongShape(net) ==
    /\ net.t = "http"
    /\ net.status_code = HTTP_OK
    /\ net.body.type # "undecodable"
    /\ \/ net.body.type # "dict"
       \/ /\ {"homeworks", "current_date"} \subseteq DOMAIN net.body.val
          /\ net.body.val.homeworks.type # "list"

\* C15: in a cycle whose reply is not a dict, or has both keys and a homeworks
\* value that is not a list, check_response raises TypeError, the handler of
\* line 176 builds the error report and sends it exactly when it differs from
\* prev_report, and no step of the cycle changes timestamp.
C15_WrongShapeReported ==
    [][(cyc.net > 0 /\ WrongShape(CycleReply)) =>
         /\ pc = "validate" =>
               /\ exc'.cls = "TypeError"
               /\ current_report' = current_report
               /\ pc' = "except"
         /\ pc = "except" =>
               /\ ErrorCycle(cyc'.trace)
               /\ current_report'.message_output = CrashText(exc.msg)
               /\ sends' \in {sends, sends + 1}
               /\ (sends' = sends + 1) <=> (current_report' # prev_report)
         /\ pc \in {"validate", "except", "sleep"}
         /\ timestamp' = timestamp]_vars

C15_Witness ==
    /\ pc = "sleep"
    /\ cyc.net > 0
    /\ WrongShape(CycleReply)
    /\ CycleReply.body.type = "dict"
    /\ cyc.raised.cls = "TypeError"
    /\ cyc.trace = <<"fetch_ok", "validate_raise", "error_send_ok">>
    /\ timestamp = 2000

\* a reply with status OK whose body cannot be decoded
DecodeFails(net) ==
    /\ net.t = "http"
    /\ net.status_code = HTTP_OK
    /\ net.body.type = "undecodable"

\* C16: a cycle whose reply body cannot be decoded passes get_api_answer,
\* fails in check_response with ResponseFormatFailure, and ends in the quiet
\* handler without a call of send_message.
C16_DecodeFailureIsQuiet ==
    (pc = "sleep" /\ cyc.net > 0 /\ DecodeFails(CycleReply)) =>
        /\ cyc.trace = <<"fetch_ok", "validate_raise", "quiet">>
        /\ cyc.raised.cls = "ResponseFormatFailure"
        /\ cyc.sent = <<>>

\* the step called send_message and the call returned True
SentTrue ==
    /\ sends' = sends + 1
    /\ cyc'.sent[Len(cyc'.sent)].ok

\* C17: in every state prev_report.message_output is the text of the latest
\* call of send_message that returned True, the empty string before the first
\* such call; a step that changes current_report without a call of
\* send_message returning True leaves prev_report as it was.
C17_StoredIsLastDelivered ==
    /\ [](prev_report.message_output = delivered.message_output)
    /\ [][/\ SentTrue => prev_report'.message_output =
                             cyc'.sent[Len(cyc'.sent)].msg
          /\ (current_report' # current_report /\ ~SentTrue) =>
                prev_report' = prev_report]_vars

C17_Witness ==
    /\ pc = "sleep"
    /\ LastOf(last.trace) = "send_ok"
    /\ LastOf(cyc.trace) = "error_send_fail"
    /\ prev_report = last.report
    /\ prev_report.message_output = last.sent[1].msg
    /\ current_report # prev_report
    /\ current_report.message_output = cyc.sent[1].msg

\* C18: a cycle calls send_message at most once: its record holds at most one
\* call, a cycle that called it on the status path has no call on the error
\* path, and a cycle whose exception was a ResponseFormatFailure has none.
C18_AtMostOneSendPerCycle ==
    /\ Len(cyc.sent) <= 1
    /\ sends <= fetches
    /\ (\E i \in DOMAIN cyc.trace : cyc.trace[i] \in {"send_ok", "send_fail"}) =>
          /\ cyc.raised = NoExc
          /\ \A j \in DOMAIN cyc.trace :
                cyc.trace[j] \notin {"error_send_ok", "error_send_fail",
                                     "error_no_send"}
    /\ cyc.raised.cls = "ResponseFormatFailure" => cyc.sent = <<>>

C18_Witness ==
    /\ pc = "sleep"
    /\ last.raised.cls = "ResponseFormatFailure"
    /\ last.sent = <<>>
    /\ LastOf(cyc.trace) = "send_fail"
    /\ Len(cyc.sent) = 1
    /\ sends = 1
    /\ fetches = 2

\* the first record is a dict without homework_name whose status is absent or
\* not in the verdict table
NamelessUnknown(net) ==
    /\ UnknownStatusFirst(net)
    /\ "homework_name" \notin DOMAIN FirstOf(net).val

\* C19: for a first record that lacks homework_name and whose status is absent
\* or not in the verdict table, parse_status raises WrongStatusInResponse and
\* not ResponseFormatFailure; the cycle goes through the handler that reports
\* to the user and never through the quiet handler.
C19_StatusCheckedBeforeName ==
    (cyc.net > 0 /\ NamelessUnknown(CycleReply)) =>
        /\ parse_status(FirstOf(CycleReply)).kind = "raise"
        /\ parse_status(FirstOf(CycleReply)).cls = "WrongStatusInResponse"
        /\ cyc.raised.cls \in {"none", "WrongStatusInResponse"}
        /\ \A i \in DOMAIN cyc.trace : cyc.trace[i] # "quiet"
        /\ pc \in {"except", "sleep"} =>
              /\ cyc.raised.cls = "WrongStatusInResponse"
              /\ Handler(cyc.raised.cls) = "report"
        /\ pc = "sleep" =>
              /\ cyc.trace[3] = "interpret_raise"
              /\ ErrorCycle(cyc.trace)
              /\ current_report.message_output = CrashText(cyc.raised.msg)

C19_Witness ==
    /\ pc = "sleep"
    /\ cyc.net > 0
    /\ NamelessUnknown(CycleReply)
    /\ FirstOf(CycleReply) = HwBare
    /\ cyc.raised.msg.status = None
    /\ LastOf(cyc.trace) = "error_send_fail"
    /\ prev_report # current_report

====
